---------------------------- MODULE Spec2Model ----------------------------
(***************************************************************************)
(* Model of the number utilities (src/unnamed/part_000) and of the        *)
(* settings reducer (src/app/reducers/settings/index.js).                 *)
(*                                                                         *)
(* JavaScript strings are sequences of one-character strings.  JavaScript *)
(* values are records tagged by the field t.  A BN instance is the record *)
(* [t |-> "BN", neg, mag], mag being its decimal magnitude, so that wei   *)
(* amounts of 10^18 and more can be written.  JavaScript numbers are the  *)
(* exact decimals m / 10^s; the values the model feeds to the float       *)
(* arithmetic are small enough for that to be what IEEE doubles give.     *)
(***************************************************************************)
EXTENDS Integers, Sequences, FiniteSets, TLC

VARIABLES call, result, state, action, supplied

vars == <<call, result, state, action, supplied>>

(***************************************************************************)
(* Bounds of the model.                                                    *)
(***************************************************************************)
MaxLen == 4
MaxDecimals == 3
MaxAmount == 1100

(***************************************************************************)
(* Strings.                                                                *)
(***************************************************************************)
DigitChars == <<"0", "1", "2", "3", "4", "5", "6", "7", "8", "9">>

Digits == {DigitChars[i] : i \in 1..10}

DigitVal(c) == (CHOOSE i \in 1..10 : DigitChars[i] = c) - 1

IsDigits(s) == \A i \in 1..Len(s) : s[i] \in Digits

CountOf(s, c) == Cardinality({i \in 1..Len(s) : s[i] = c})

RECURSIVE Zeros(_)
Zeros(n) == IF n <= 0 THEN <<>> ELSE <<"0">> \o Zeros(n - 1)

\* BN.prototype.toString(10) of a non-negative value
RECURSIVE NatToString(_)
NatToString(n) ==
    IF n < 10 THEN <<DigitChars[n + 1]>>
    ELSE NatToString(n \div 10) \o <<DigitChars[(n % 10) + 1]>>

IntToString(n) == IF n < 0 THEN <<"-">> \o NatToString(-n) ELSE NatToString(n)

\* new BN(str) of a string of decimal digits
RECURSIVE ParseDigits(_)
ParseDigits(s) ==
    IF s = <<>> THEN 0
    ELSE ParseDigits(SubSeq(s, 1, Len(s) - 1)) * 10 + DigitVal(s[Len(s)])

\* s without a leading '-'
Unsigned(s) == IF Len(s) > 0 /\ s[1] = "-" THEN SubSeq(s, 2, Len(s)) ELSE s

StripLeadingZeros(s) ==
    IF \A i \in 1..Len(s) : s[i] = "0" THEN <<"0">>
    ELSE LET k == CHOOSE i \in 1..Len(s) :
                      s[i] # "0" /\ \A j \in 1..(i - 1) : s[j] = "0"
         IN SubSeq(s, k, Len(s))

(***************************************************************************)
(* JavaScript values and outcomes of a call.                               *)
(***************************************************************************)
Undefined == [t |-> "undefined"]
Null == [t |-> "null"]
NaN == [t |-> "NaN"]
Str(s) == [t |-> "string", v |-> s]
Bool(b) == [t |-> "boolean", v |-> b]

RECURSIVE Normalize(_, _)
Normalize(m, s) ==
    IF s > 0 /\ m % 10 = 0 THEN Normalize(m \div 10, s - 1)
    ELSE [t |-> "number", m |-> m, s |-> s]

Num(m, s) == Normalize(m, s)

BNOfInt(n) ==
    [t |-> "BN", neg |-> (n < 0), mag |-> NatToString(IF n < 0 THEN -n ELSE n)]

IntOfBN(b) == IF b.neg THEN -ParseDigits(b.mag) ELSE ParseDigits(b.mag)

Return(v) == [t |-> "return", v |-> v]
Throw(e) == [t |-> "throw", v |-> e]

RECURSIVE Pow10(_)
Pow10(d) == IF d = 0 THEN 1 ELSE 10 * Pow10(d - 1)

\* toBN(Math.pow(10, decimals).toString())
toBN(s) == ParseDigits(s)

\* BN.prototype.mul handed the boolean flag `negative` (always true where it
\* is called): bn.js sizes its result with this.length + num.length, num.length
\* is undefined, and new Array(NaN) throws a RangeError.
mulByBoolean(x, flag) == Throw("RangeError")

(***************************************************************************)
(* fromTokenMinimalUnit                                                    *)
(***************************************************************************)
\* numberToBN of a BN instance, a JavaScript integer or a string of digits
numberToBN(v) ==
    CASE v.t = "BN" -> v
      [] v.t = "number" -> BNOfInt(v.m)
      [] v.t = "string" -> [t |-> "BN", neg |-> FALSE, mag |-> StripLeadingZeros(v.v)]

PadLeft(s, n) == Zeros(n - Len(s)) \o s

PadRight(s, n) == s \o Zeros(n - Len(s))

\* the trimming without its greedy first alternative: only "0" is matched
TrimFraction_firstZeroOnly(s) == IF Len(s) > 0 /\ s[1] = "0" THEN <<"0">> ELSE s

\* fraction.match(/^([0-9]*[1-9]|0)(0*)/)[1] on a string of digits
TrimFraction(s) ==
    LET nz == {i \in 1..Len(s) : s[i] # "0"}
    IN IF nz # {} THEN SubSeq(s, 1, CHOOSE i \in nz : \A j \in nz : j <= i)
       ELSE <<"0">>

fromTokenMinimalUnit(minimalInput, decimals) ==
    LET minimal == IntOfBN(numberToBN(minimalInput))
        negative == minimal < 0
        base == toBN(IntToString(Pow10(decimals)))
    IN IF negative
       THEN mulByBoolean(minimal, negative)
       ELSE LET fraction == TrimFraction(PadLeft(NatToString(minimal % base), decimals))
                whole == NatToString(minimal \div base)
                value == whole \o (IF fraction = <<"0">> THEN <<>> ELSE <<".">> \o fraction)
            IN Return(Str(value))

(***************************************************************************)
(* toTokenMinimalUnit                                                      *)
(***************************************************************************)
\* arg.match(/^-?[0-9.]+$/) of ethjs-unit's numberToString
MatchesNumber(s) ==
    LET body == IF Len(s) > 0 /\ s[1] = "-" THEN SubSeq(s, 2, Len(s)) ELSE s
    IN Len(body) > 0 /\ \A i \in 1..Len(body) : body[i] \in Digits \cup {"."}

\* value.split('.') when value holds at most one '.'
SplitWhole(s) ==
    IF CountOf(s, ".") = 0 THEN s
    ELSE SubSeq(s, 1, (CHOOSE i \in 1..Len(s) : s[i] = ".") - 1)

SplitFraction(s) ==
    IF CountOf(s, ".") = 0 THEN <<>>
    ELSE SubSeq(s, (CHOOSE i \in 1..Len(s) : s[i] = ".") + 1, Len(s))

toTokenMinimalUnit(tokenValue, decimals) ==
    IF ~MatchesNumber(tokenValue.v) THEN Throw("numberToString")
    ELSE
    LET base == toBN(IntToString(Pow10(decimals)))
        value0 == tokenValue.v
        negative == value0[1] = "-"
        value == IF negative THEN SubSeq(value0, 2, Len(value0)) ELSE value0
    IN IF value = <<".">> THEN Throw("invalid value")
       ELSE IF CountOf(value, ".") + 1 > 2 THEN Throw("too many decimal points")
       ELSE
       LET whole == IF SplitWhole(value) = <<>> THEN <<"0">> ELSE SplitWhole(value)
           fraction == IF SplitFraction(value) = <<>> THEN <<"0">> ELSE SplitFraction(value)
       IN IF Len(fraction) > decimals THEN Throw("too many decimal places")
          ELSE LET tokenMinimal ==
                       ParseDigits(whole) * base + ParseDigits(PadRight(fraction, decimals))
               IN IF negative
                  THEN mulByBoolean(tokenMinimal, negative)
                  ELSE Return(BNOfInt(ParseDigits(IntToString(tokenMinimal))))

(***************************************************************************)
(* JavaScript number arithmetic on exact decimals                          *)
(***************************************************************************)
IsNumericString(s) ==
    LET u == Unsigned(s)
    IN /\ CountOf(u, ".") <= 1
       /\ \A i \in 1..Len(u) : u[i] \in Digits \cup {"."}
       /\ \E i \in 1..Len(u) : u[i] \in Digits

\* the Number a decimal literal denotes
StringToNumber(s) ==
    IF s = <<>> THEN Num(0, 0)
    ELSE IF ~IsNumericString(s) THEN NaN
    ELSE LET u == Unsigned(s)
             dot == IF CountOf(u, ".") = 0 THEN Len(u) + 1
                    ELSE CHOOSE i \in 1..Len(u) : u[i] = "."
             w == SubSeq(u, 1, dot - 1)
             f == SubSeq(u, dot + 1, Len(u))
             m == ParseDigits(w \o f)
         IN Num(IF s[1] = "-" THEN -m ELSE m, Len(f))

\* ToNumber, the coercion the operator * applies to its operands
ToNumber(v) ==
    CASE v.t = "undefined" -> NaN
      [] v.t = "null" -> Num(0, 0)
      [] v.t = "NaN" -> NaN
      [] v.t = "number" -> v
      [] v.t = "string" -> StringToNumber(v.v)

\* the exact product m1 / 10^s1 * m2 / 10^s2, powers of ten cancelled first
RECURSIVE Product(_, _, _, _)
Product(m1, s1, m2, s2) ==
    IF s1 > 0 /\ m2 # 0 /\ m2 % 10 = 0 THEN Product(m1, s1 - 1, m2 \div 10, s2)
    ELSE IF s2 > 0 /\ m1 # 0 /\ m1 % 10 = 0 THEN Product(m1 \div 10, s1, m2, s2 - 1)
    ELSE Num(m1 * m2, s1 + s2)

\* a * b
Times(a, b) ==
    LET x == ToNumber(a)
        y == ToNumber(b)
    IN IF x.t = "NaN" \/ y.t = "NaN" THEN NaN ELSE Product(x.m, x.s, y.m, y.s)

\* Math.round: the nearest integer, halves towards +Infinity
MathRound(x) ==
    IF x.t = "NaN" THEN NaN
    ELSE IF x.s = 0 THEN x
    ELSE IF x.s > 9 THEN Num(0, 0)   \* |x| < 1/2: m has at most ten digits
    ELSE Num((x.m + 5 * Pow10(x.s - 1)) \div Pow10(x.s), 0)

\* x / Math.pow(10, k)
OverPow10(x, k) == IF x.t = "NaN" THEN NaN ELSE Num(x.m, x.s + k)


isNaN(x) == x.t = "NaN"

\* the string a template literal makes of a Number
NumberToString(x) ==
    IF x.t = "NaN" THEN <<"N", "a", "N">>
    ELSE LET a == IF x.m < 0 THEN -x.m ELSE x.m
             sign == IF x.m < 0 THEN <<"-">> ELSE <<>>
         IN IF x.s = 0 THEN sign \o NatToString(a)
            ELSE sign \o NatToString(a \div Pow10(x.s)) \o <<".">>
                      \o PadLeft(NatToString(a % Pow10(x.s)), x.s)

\* parseFloat of a Number: the Number its string form denotes
parseFloat(x) == StringToNumber(NumberToString(x))

LowerCase == <<"a", "b", "c", "d", "e", "f", "g", "h", "i", "j", "k", "l", "m",
               "n", "o", "p", "q", "r", "s", "t", "u", "v", "w", "x", "y", "z">>

UpperCase == <<"A", "B", "C", "D", "E", "F", "G", "H", "I", "J", "K", "L", "M",
               "N", "O", "P", "Q", "R", "S", "T", "U", "V", "W", "X", "Y", "Z">>

\* String.prototype.toUpperCase
toUpperCase(s) ==
    [i \in 1..Len(s) |->
        IF \E k \in 1..26 : LowerCase[k] = s[i]
        THEN UpperCase[CHOOSE k \in 1..26 : LowerCase[k] = s[i]]
        ELSE s[i]]

\* the values !v holds of
Falsy(v) ==
    \/ v.t \in {"undefined", "null", "NaN"}
    \/ v.t = "number" /\ v.m = 0
    \/ v.t = "string" /\ v.v = <<>>

isBN(v) == v.t = "BN"

(***************************************************************************)
(* fromWei, weiToFiat, weiToFiatNumber                                     *)
(***************************************************************************)
\* the unit 'ether' of ethjs-unit: 10^18 wei
EtherDecimals == 18

WeiDecimalsToShow == 5

BalanceDecimalsToShow == 5

\* convert.fromWei(value, 'ether'): wei.div(base) and wei.mod(base) of the
\* base 10^18 are the digits before and the last 18 digits of the magnitude
fromWei(value) ==
    LET wei == numberToBN(value)
        negative == wei.neg /\ wei.mag # <<"0">>
        n == Len(wei.mag)
        modBase == StripLeadingZeros(
                       IF n > EtherDecimals
                       THEN SubSeq(wei.mag, n - EtherDecimals + 1, n) ELSE wei.mag)
        fraction == TrimFraction(PadLeft(modBase, EtherDecimals))
        whole == IF n > EtherDecimals THEN SubSeq(wei.mag, 1, n - EtherDecimals)
                 ELSE <<"0">>
        value1 == whole \o (IF fraction = <<"0">> THEN <<>> ELSE <<".">> \o fraction)
    IN IF negative THEN <<"-">> \o value1 ELSE value1

\* the same, with the isNaN test of line 236 left out
weiToFiatNumber_noNaNTest(wei, conversionRate, decimalsToShow) ==
    LET eth == Str(fromWei(wei))
    IN Return(parseFloat(OverPow10(
           MathRound(Times(Times(eth, conversionRate), Num(Pow10(decimalsToShow), 0))),
           decimalsToShow)))

weiToFiatNumber(wei, conversionRate, decimalsToShow) ==
    LET base == Num(Pow10(decimalsToShow), 0)
        eth == Str(fromWei(wei))
        value == parseFloat(OverPow10(
                     MathRound(Times(Times(eth, conversionRate), base)), decimalsToShow))
    IN Return(IF isNaN(value) THEN Num(0, 0) ELSE value)

\* the same, with only !wei tested
weiToFiat_noBNTest(wei, conversionRate, currencyCode) ==
    IF Falsy(wei) THEN Return(Str(<<"0", ".", "0", "0", " ">> \o currencyCode))
    ELSE Return(Str(NumberToString(
                        weiToFiatNumber(wei, conversionRate, WeiDecimalsToShow).v)
                    \o <<" ">> \o currencyCode))

weiToFiat(wei, conversionRate, currencyCode) ==
    IF Falsy(wei) \/ ~isBN(wei)
    THEN Return(Str(<<"0", ".", "0", "0", " ">> \o currencyCode))
    ELSE LET value == weiToFiatNumber(wei, conversionRate, WeiDecimalsToShow).v
         IN Return(Str(NumberToString(value) \o <<" ">> \o currencyCode))

(***************************************************************************)
(* balanceToFiat, balanceToFiatNumber                                      *)
(***************************************************************************)
balanceToFiatNumber(balance, conversionRate, exchangeRate, decimalsToShow) ==
    LET base == Num(Pow10(decimalsToShow), 0)
        fiatFixed == parseFloat(OverPow10(
                         MathRound(Times(Times(Times(balance, conversionRate),
                                               exchangeRate), base)),
                         decimalsToShow))
    IN Return(IF isNaN(fiatFixed) THEN Num(0, 0) ELSE fiatFixed)

\* the same, with !balance || !exchangeRate for the test of line 250
balanceToFiat_falsyTest(balance, conversionRate, exchangeRate, currencyCode) ==
    IF Falsy(balance) \/ Falsy(exchangeRate) THEN Return(Undefined)
    ELSE Return(Str(NumberToString(
                        balanceToFiatNumber(balance, conversionRate, exchangeRate,
                                            BalanceDecimalsToShow).v)
                    \o <<" ">> \o toUpperCase(currencyCode)))

balanceToFiat(balance, conversionRate, exchangeRate, currencyCode) ==
    IF \/ balance.t = "undefined" \/ balance.t = "null"
       \/ exchangeRate.t = "undefined" \/ exchangeRate.t = "null"
    THEN Return(Undefined)
    ELSE LET fiatFixed == balanceToFiatNumber(balance, conversionRate, exchangeRate,
                                              BalanceDecimalsToShow).v
         IN Return(Str(NumberToString(fiatFixed) \o <<" ">> \o toUpperCase(currencyCode)))

(***************************************************************************)
(* isDecimal                                                               *)
(***************************************************************************)
\* the pattern without its second alternative, /^(\d+\.?\d*)$/
isDecimal_noLeadingPoint(value) ==
    \E i \in 1..Len(value) :
        /\ IsDigits(SubSeq(value, 1, i))
        /\ \/ IsDigits(SubSeq(value, i + 1, Len(value)))
           \/ /\ i < Len(value)
              /\ value[i + 1] = "."
              /\ IsDigits(SubSeq(value, i + 2, Len(value)))

\* /^(\d+\.?\d*|\.\d+)$/.test(value)
isDecimal(value) ==
    \/ \E i \in 1..Len(value) :
          /\ IsDigits(SubSeq(value, 1, i))
          /\ \/ IsDigits(SubSeq(value, i + 1, Len(value)))
             \/ /\ i < Len(value)
                /\ value[i + 1] = "."
                /\ IsDigits(SubSeq(value, i + 2, Len(value)))
    \/ /\ Len(value) >= 2
       /\ value[1] = "."
       /\ IsDigits(SubSeq(value, 2, Len(value)))

(***************************************************************************)
(* The settings reducer.  An object is Obj(f), f a function from the names *)
(* of its own properties to their values.                                  *)
(***************************************************************************)
Obj(f) == [t |-> "object", o |-> f]

Opaque(name) == [t |-> "value", v |-> name]

\* obj.k, undefined when obj has no property k
Get(f, k) == IF k \in DOMAIN f THEN f[k] ELSE Undefined

Truthy(v) == v.t \notin {"undefined", "null"}

\* { ...a, ...b }
Spread(a, b) ==
    [k \in DOMAIN a \cup DOMAIN b |-> IF k \in DOMAIN b THEN b[k] ELSE a[k]]

DEFAULT_SEARCH_ENGINE == Opaque("AppConstants.DEFAULT_SEARCH_ENGINE")

DEFAULT_LOCK_TIMEOUT == Opaque("AppConstants.DEFAULT_LOCK_TIMEOUT")

initialState ==
    [searchEngine |-> DEFAULT_SEARCH_ENGINE, lockTime |-> DEFAULT_LOCK_TIMEOUT]

REHYDRATE == "persist/REHYDRATE"

\* the reducer with the rehydrated settings spread over initialState
settingsReducer_rehydrateOverInitial(st, act) ==
    CASE act.type = REHYDRATE ->
            IF Truthy(Get(act, "payload")) /\ Truthy(Get(act.payload.o, "settings"))
            THEN Spread(initialState, act.payload.o.settings.o)
            ELSE st
      [] act.type = "SET_SEARCH_ENGINE" ->
            Spread(st, [searchEngine |-> Get(act, "searchEngine")])
      [] act.type = "SET_LOCK_TIME" ->
            Spread(st, [lockTime |-> Get(act, "lockTime")])
      [] OTHER -> st

settingsReducer(st, act) ==
    CASE act.type = REHYDRATE ->
            IF Truthy(Get(act, "payload")) /\ Truthy(Get(act.payload.o, "settings"))
            THEN Spread(st, act.payload.o.settings.o)
            ELSE st
      [] act.type = "SET_SEARCH_ENGINE" ->
            Spread(st, [searchEngine |-> Get(act, "searchEngine")])
      [] act.type = "SET_LOCK_TIME" ->
            Spread(st, [lockTime |-> Get(act, "lockTime")])
      [] OTHER -> st

(***************************************************************************)
(* Inputs                                                                  *)
(***************************************************************************)
Alphabet == {"0", "1", "5", ".", "-", "e"}

RECURSIVE StringsUpTo(_)
StringsUpTo(n) ==
    IF n = 0 THEN {<<>>}
    ELSE LET shorter == StringsUpTo(n - 1)
         IN shorter \cup {Append(s, c) : s \in shorter, c \in Alphabet}

Strings == StringsUpTo(MaxLen)

Amounts == (-MaxAmount)..MaxAmount

DecimalCounts == 0..MaxDecimals

NotCalled == [t |-> "pending", v |-> Undefined]

\* wei amounts: 0, 1 wei, 15 * 10^12 wei, 1.5 ether, -1.5 ether,
\* 1.234567 ether and 20 ether
WeiAmounts ==
    {[t |-> "BN", neg |-> n, mag |-> m \o Zeros(z)] :
        n \in BOOLEAN, m \in {<<"1", "5">>}, z \in {12, 17}}
    \cup {BNOfInt(0), BNOfInt(1),
          [t |-> "BN", neg |-> FALSE, mag |-> <<"1", "2", "3", "4", "5", "6", "7">> \o Zeros(12)],
          [t |-> "BN", neg |-> FALSE, mag |-> <<"2">> \o Zeros(19)]}

WeiInputs ==
    WeiAmounts \cup {Undefined, Null, NaN, Num(0, 0), Num(5, 0), Str(<<>>),
                     Str(<<"1", "0", "0">>)}

\* 300, 2.5, 0, "2", and the rates that are no number
Rates ==
    {Num(300, 0), Num(25, 1), Num(0, 0), Str(<<"2">>), Str(<<"a", "b", "c">>),
     Undefined, Null, NaN}

\* 0, 2, 1.5, "3", and the balances that are absent or no number
Balances ==
    {Num(0, 0), Num(2, 0), Num(15, 1), Str(<<"3">>), Str(<<"a", "b", "c">>),
     Undefined, Null, NaN}

\* 0, 3, 0.01, 0.0001, and the rates that are absent or no number
ExchangeRates ==
    {Num(0, 0), Num(3, 0), Num(1, 2), Num(1, 4), Str(<<"a", "b", "c">>),
     Undefined, Null, NaN}

CurrencyCodes == {<<"U", "S", "D">>, <<"u", "s", "d">>, <<"E", "u", "r">>}

Calls ==
    [fn : {"fromTokenMinimalUnit"}, minimalInput : Amounts, decimals : DecimalCounts]
    \cup [fn : {"toTokenMinimalUnit"}, tokenValue : Strings, decimals : DecimalCounts]
    \cup [fn : {"isDecimal"}, value : Strings]
    \cup [fn : {"weiToFiat"}, wei : WeiInputs, conversionRate : Rates,
          currencyCode : CurrencyCodes]
    \cup [fn : {"weiToFiatNumber"}, wei : WeiAmounts, conversionRate : Rates]
    \cup [fn : {"balanceToFiat"}, balance : Balances, conversionRate : Rates,
          exchangeRate : ExchangeRates, currencyCode : CurrencyCodes]
    \cup [fn : {"balanceToFiatNumber"}, balance : Balances, conversionRate : Rates,
          exchangeRate : ExchangeRates]

\* The inputs of one call are drawn here; the actions apply the function.
Init ==
    /\ call \in Calls
    /\ result = NotCalled
    /\ state = initialState
    /\ action = [type |-> "@@INIT"]
    /\ supplied = initialState

FromTokenMinimalUnit ==
    /\ call.fn = "fromTokenMinimalUnit"
    /\ result = NotCalled
    /\ result' = fromTokenMinimalUnit(Num(call.minimalInput, 0), call.decimals)
    /\ UNCHANGED <<call, state, action, supplied>>

ToTokenMinimalUnit ==
    /\ call.fn = "toTokenMinimalUnit"
    /\ result = NotCalled
    /\ result' = toTokenMinimalUnit(Str(call.tokenValue), call.decimals)
    /\ UNCHANGED <<call, state, action, supplied>>

\* toTokenMinimalUnit(fromTokenMinimalUnit(a, d), d)
RoundTrip ==
    /\ call.fn = "fromTokenMinimalUnit"
    /\ result.t = "return"
    /\ call' = [fn |-> "roundTrip", minimalInput |-> call.minimalInput,
                decimals |-> call.decimals, tokenValue |-> result.v.v]
    /\ result' = toTokenMinimalUnit(result.v, call.decimals)
    /\ UNCHANGED <<state, action, supplied>>

IsDecimal ==
    /\ call.fn = "isDecimal"
    /\ result = NotCalled
    /\ result' = Return(Bool(isDecimal(call.value)))
    /\ UNCHANGED <<call, state, action, supplied>>

WeiToFiat ==
    /\ call.fn = "weiToFiat"
    /\ result = NotCalled
    /\ result' = weiToFiat(call.wei, call.conversionRate, call.currencyCode)
    /\ UNCHANGED <<call, state, action, supplied>>

WeiToFiatNumber ==
    /\ call.fn = "weiToFiatNumber"
    /\ result = NotCalled
    /\ result' = weiToFiatNumber(call.wei, call.conversionRate, WeiDecimalsToShow)
    /\ UNCHANGED <<call, state, action, supplied>>

BalanceToFiat ==
    /\ call.fn = "balanceToFiat"
    /\ result = NotCalled
    /\ result' = balanceToFiat(call.balance, call.conversionRate, call.exchangeRate,
                               call.currencyCode)
    /\ UNCHANGED <<call, state, action, supplied>>

BalanceToFiatNumber ==
    /\ call.fn = "balanceToFiatNumber"
    /\ result = NotCalled
    /\ result' = balanceToFiatNumber(call.balance, call.conversionRate,
                                     call.exchangeRate, BalanceDecimalsToShow)
    /\ UNCHANGED <<call, state, action, supplied>>

Next ==
    \/ FromTokenMinimalUnit
    \/ ToTokenMinimalUnit
    \/ RoundTrip
    \/ IsDecimal
    \/ WeiToFiat
    \/ WeiToFiatNumber
    \/ BalanceToFiat
    \/ BalanceToFiatNumber

Spec == Init /\ [][Next]_vars

(***************************************************************************)
(* The store: actions dispatched to the settings reducer                   *)
(***************************************************************************)
SearchEngines == {DEFAULT_SEARCH_ENGINE, Opaque("Google"), Opaque("DuckDuckGo"), Undefined}

LockTimes == {DEFAULT_LOCK_TIMEOUT, Opaque("0"), Opaque("-1"), Undefined}

\* the objects holding some of the properties searchEngine and lockTime
SettingsObjects ==
    {Obj(<<>>)}
    \cup {Obj([searchEngine |-> s]) : s \in SearchEngines}
    \cup {Obj([lockTime |-> l]) : l \in LockTimes}
    \cup {Obj([searchEngine |-> s, lockTime |-> l]) : s \in SearchEngines, l \in LockTimes}

Payloads ==
    {Undefined, Null, Obj(<<>>), Obj([settings |-> Undefined]), Obj([settings |-> Null])}
    \cup {Obj([settings |-> s]) : s \in SettingsObjects}

RehydrateActions ==
    {[type |-> REHYDRATE]} \cup {[type |-> REHYDRATE, payload |-> p] : p \in Payloads}

OtherActions ==
    {[type |-> "SET_OTHER"], [type |-> "SET_OTHER", searchEngine |-> Opaque("Google")],
     [type |-> "SET_OTHER", lockTime |-> Opaque("0")],
     [type |-> "SET_OTHER", payload |-> Obj([settings |-> Obj([lockTime |-> Opaque("0")])])]}

\* the value the action carries for the field k, were it of a kind that sets k
Carried(act, k) ==
    IF /\ "payload" \in DOMAIN act /\ act.payload.t = "object"
       /\ "settings" \in DOMAIN act.payload.o /\ act.payload.o.settings.t = "object"
       /\ k \in DOMAIN act.payload.o.settings.o
    THEN {act.payload.o.settings.o[k]}
    ELSE {}

InitSettings ==
    /\ call = [fn |-> "none"]
    /\ result = NotCalled
    /\ state = initialState
    /\ action = [type |-> "@@INIT"]
    /\ supplied = initialState

Rehydrate ==
    \E act \in RehydrateActions :
        /\ action' = act
        /\ state' = settingsReducer(state, act)
        /\ supplied' = [k \in DOMAIN supplied |->
                           IF Carried(act, k) # {} THEN CHOOSE v \in Carried(act, k) : TRUE
                           ELSE supplied[k]]
        /\ UNCHANGED <<call, result>>

SetSearchEngine ==
    \E s \in SearchEngines :
        /\ action' = [type |-> "SET_SEARCH_ENGINE", searchEngine |-> s]
        /\ state' = settingsReducer(state, action')
        /\ supplied' = [supplied EXCEPT !["searchEngine"] = s]
        /\ UNCHANGED <<call, result>>

SetLockTime ==
    \E l \in LockTimes :
        /\ action' = [type |-> "SET_LOCK_TIME", lockTime |-> l]
        /\ state' = settingsReducer(state, action')
        /\ supplied' = [supplied EXCEPT !["lockTime"] = l]
        /\ UNCHANGED <<call, result>>

OtherAction ==
    \E act \in OtherActions :
        /\ action' = act
        /\ state' = settingsReducer(state, act)
        /\ UNCHANGED <<call, result, supplied>>

NextSettings == Rehydrate \/ SetSearchEngine \/ SetLockTime \/ OtherAction

SpecSettings == InitSettings /\ [][NextSettings]_vars

(***************************************************************************)
(* Claims about the token unit conversions                                 *)
(***************************************************************************)
Called(fn) == call.fn = fn /\ result # NotCalled

\* C1: for every amount a >= 0 and decimal count d >= 0,
\* toTokenMinimalUnit(fromTokenMinimalUnit(a, d), d) returns the integer a.
C1_RoundTrip ==
    (Called("roundTrip") /\ call.minimalInput >= 0)
        => result = Return(BNOfInt(call.minimalInput))

\* C2: for every a > 0, fromTokenMinimalUnit(-a, d) returns "-" followed by
\* fromTokenMinimalUnit(a, d).
C2_SignPreservation ==
    (Called("fromTokenMinimalUnit") /\ call.minimalInput < 0)
        => LET pos == fromTokenMinimalUnit(Num(-call.minimalInput, 0), call.decimals)
           IN /\ pos.t = "return"
              /\ result = Return(Str(<<"-">> \o pos.v.v))

\* The strings [-]W[.F] with F of at most d digits
DotAt(s) == IF CountOf(s, ".") = 0 THEN Len(s) + 1 ELSE CHOOSE i \in 1..Len(s) : s[i] = "."

WholeDigits(s) == SubSeq(Unsigned(s), 1, DotAt(Unsigned(s)) - 1)

FractionDigits(s) == SubSeq(Unsigned(s), DotAt(Unsigned(s)) + 1, Len(Unsigned(s)))

IsDecimalString(s, d) ==
    /\ CountOf(Unsigned(s), ".") <= 1
    /\ WholeDigits(s) # <<>> /\ IsDigits(WholeDigits(s))
    /\ IsDigits(FractionDigits(s))
    /\ CountOf(Unsigned(s), ".") = 1 => FractionDigits(s) # <<>>
    /\ Len(FractionDigits(s)) <= d

ScaledValue(s, d) ==
    LET magnitude == ParseDigits(WholeDigits(s)) * Pow10(d)
                     + ParseDigits(FractionDigits(s)) * Pow10(d - Len(FractionDigits(s)))
    IN IF s[1] = "-" THEN -magnitude ELSE magnitude

\* C3: for every decimal string [-]W[.F] whose F has at most d digits,
\* toTokenMinimalUnit returns sign * (W * 10^d + F padded to d digits).
C3_ExactScaling ==
    (Called("toTokenMinimalUnit") /\ IsDecimalString(call.tokenValue, call.decimals))
        => result = Return(BNOfInt(ScaledValue(call.tokenValue, call.decimals)))

\* C4: on a numeric string toTokenMinimalUnit raises exactly when the
\* sign-stripped input is ".", holds more than one decimal point, or has more
\* fractional digits than decimals; otherwise it returns a value.
C4_RaisesExactly ==
    (Called("toTokenMinimalUnit") /\ MatchesNumber(call.tokenValue))
        => LET v == Unsigned(call.tokenValue)
               lone == v = <<".">>
               points == CountOf(v, ".") > 1
               places == CountOf(v, ".") = 1 /\ Len(v) - DotAt(v) > call.decimals
           IN /\ result.t = "throw" <=> (lone \/ points \/ places)
              /\ lone => result = Throw("invalid value")
              /\ points => result = Throw("too many decimal points")
              /\ (places /\ ~lone) => result = Throw("too many decimal places")

Absent(v) == v.t \in {"undefined", "null"}

EndsWith(s, suffix) ==
    /\ Len(s) >= Len(suffix)
    /\ SubSeq(s, Len(s) - Len(suffix) + 1, Len(s)) = suffix

UpperLabel(code) ==
    IF code \in {<<"U", "S", "D">>, <<"u", "s", "d">>} THEN <<" ", "U", "S", "D">>
    ELSE <<" ", "E", "U", "R">>

\* the rendering of a finite number: digits, at most one point, maybe a sign
IsValueText(s) ==
    /\ IsNumericString(s)
    /\ s[Len(s)] \in Digits
    /\ Unsigned(s)[1] \in Digits

\* C6: balanceToFiat returns undefined iff balance or exchangeRate is
\* null/undefined; otherwise, a zero balance or rate included, it returns the
\* string "<value> <CURRENCYCODE>" with the code upper-cased.
C6_AbsentOrString ==
    Called("balanceToFiat")
        => /\ result.t = "return"
           /\ result.v = Undefined <=> (Absent(call.balance) \/ Absent(call.exchangeRate))
           /\ result.v # Undefined
                 => /\ result.v.t = "string"
                    /\ EndsWith(result.v.v, UpperLabel(call.currencyCode))
                    /\ IsValueText(SubSeq(result.v.v, 1, Len(result.v.v) - 4))
           /\ (call.balance = Num(0, 0) /\ ~Absent(call.exchangeRate))
                 => result.v = Str(<<"0">> \o UpperLabel(call.currencyCode))

C6_Witness ==
    /\ Called("balanceToFiat")
    /\ call.balance = Num(0, 0) /\ call.exchangeRate = Num(1, 2)
    /\ call.conversionRate = Num(300, 0) /\ call.currencyCode = <<"u", "s", "d">>
    /\ result = Return(Str(<<"0", " ", "U", "S", "D">>))

\* C7: weiToFiat returns "0.00 <currencyCode>" whenever the amount is missing
\* or no BN instance, whatever the rate; for a BN instance, zero included, it
\* returns "<rounded value> <currencyCode>" computed from amount and rate.
C7_SentinelOrValue ==
    Called("weiToFiat")
        => LET label == <<" ">> \o call.currencyCode
           IN /\ result.t = "return" /\ result.v.t = "string"
              /\ call.wei.t # "BN" => result.v.v = <<"0", ".", "0", "0">> \o label
              /\ call.wei.t = "BN"
                    => /\ EndsWith(result.v.v, label)
                       /\ SubSeq(result.v.v, 1, Len(result.v.v) - 4)
                             = NumberToString(weiToFiatNumber(call.wei, call.conversionRate,
                                                              WeiDecimalsToShow).v)
                       /\ result.v.v # <<"0", ".", "0", "0">> \o label
              /\ call.wei = BNOfInt(0) => result.v.v = <<"0">> \o label

C7_Witness ==
    /\ Called("weiToFiat")
    /\ call.wei = Num(5, 0) /\ call.conversionRate = Num(300, 0)
    /\ result = Return(Str(<<"0", ".", "0", "0", " ", "U", "S", "D">>))

\* C8 as stated: isDecimal accepts no sign and no exponent and requires a digit
\* after a decimal point that follows digits: true for "0.5" and ".5", false
\* for "--1" and for a numeral that ends in a bare point such as "1.".
C8_DigitAfterPoint ==
    Called("isDecimal")
        => /\ call.value \in {<<"0", ".", "5">>, <<".", "5">>} => result.v.v
           /\ call.value = <<"-", "-", "1">> => ~result.v.v
           /\ (\E i \in 1..Len(call.value) : call.value[i] \in {"-", "e"}) => ~result.v.v
           /\ (call.value # <<>> /\ call.value[Len(call.value)] = ".") => ~result.v.v

\* C8 as amended: isDecimal is true exactly of the strings of digits and
\* points holding at most one point and at least one digit, so no sign and no
\* exponent is accepted, "0.5" and ".5" are, and so is "1.".
C8_DigitsAndOnePoint ==
    Called("isDecimal")
        => /\ result = Return(Bool(/\ \A i \in 1..Len(call.value) :
                                         call.value[i] \in Digits \cup {"."}
                                   /\ CountOf(call.value, ".") <= 1
                                   /\ \E i \in 1..Len(call.value) : call.value[i] \in Digits))
           /\ call.value \in {<<"0", ".", "5">>, <<".", "5">>, <<"1", ".">>} => result.v.v
           /\ call.value \in {<<"-", "-", "1">>, <<".">>, <<"1", "e", "1">>} => ~result.v.v

C8_Witness ==
    /\ Called("isDecimal")
    /\ call.value = <<"1", ".">>
    /\ result = Return(Bool(TRUE))

\* the operands whose product is NaN
NoNumber(v) ==
    \/ v.t \in {"undefined", "NaN"}
    \/ v.t = "string" /\ v.v = <<"a", "b", "c">>

\* C9: weiToFiatNumber and balanceToFiatNumber return 0 whenever the product
\* of their inputs is NaN, and weiToFiat and balanceToFiat never return a
\* string whose value part is NaN.
C9_NaNNotPropagated ==
    /\ Called("weiToFiatNumber")
          => /\ result.t = "return" /\ result.v.t = "number"
             /\ NoNumber(call.conversionRate) => result.v = Num(0, 0)
    /\ Called("balanceToFiatNumber")
          => /\ result.t = "return" /\ result.v.t = "number"
             /\ (NoNumber(call.balance) \/ NoNumber(call.conversionRate)
                 \/ NoNumber(call.exchangeRate)) => result.v = Num(0, 0)
    /\ (Called("weiToFiat") \/ Called("balanceToFiat"))
          => /\ result.t = "return"
             /\ result.v.t = "string"
                   => \A i \in 1..(Len(result.v.v) - 4) : result.v.v[i] \in Digits \cup {".", "-"}

C9_Witness ==
    /\ Called("balanceToFiat")
    /\ call.balance = Num(2, 0) /\ call.conversionRate = Undefined
    /\ call.exchangeRate = Num(3, 0) /\ call.currencyCode = <<"U", "S", "D">>
    /\ result = Return(Str(<<"0", " ", "U", "S", "D">>))

(***************************************************************************)
(* Claim about the settings reducer                                        *)
(***************************************************************************)
MergesSettings(act) ==
    /\ act.type = REHYDRATE
    /\ "payload" \in DOMAIN act /\ act.payload.t = "object"
    /\ "settings" \in DOMAIN act.payload.o /\ act.payload.o.settings.t = "object"

C10_Step ==
    /\ DOMAIN state' = {"searchEngine", "lockTime"}
    /\ \A k \in DOMAIN state' : state'[k] = supplied'[k]
    /\ action'.type = "SET_SEARCH_ENGINE"
          => state'.lockTime = state.lockTime /\ state'.searchEngine = action'.searchEngine
    /\ action'.type = "SET_LOCK_TIME"
          => state'.searchEngine = state.searchEngine /\ state'.lockTime = action'.lockTime
    /\ (action'.type = REHYDRATE /\ ~MergesSettings(action')) => state' = state
    /\ action'.type \notin {REHYDRATE, "SET_SEARCH_ENGINE", "SET_LOCK_TIME"}
          => state' = state

\* C10: after any sequence of actions each of searchEngine and lockTime is the
\* value the most recent action supplying that field carried (SET_SEARCH_ENGINE,
\* SET_LOCK_TIME, or a REHYDRATE whose payload.settings holds the field), or
\* the default if none did; a SET action leaves the other field alone; a
\* REHYDRATE without payload.settings and any other action change nothing.
C10_LastActionWins ==
    /\ state = initialState /\ supplied = initialState
    /\ [][NextSettings => C10_Step]_vars

C10_Witness ==
    /\ action = [type |-> REHYDRATE,
                 payload |-> Obj([settings |-> Obj([lockTime |-> Opaque("0")])])]
    /\ state = [searchEngine |-> Opaque("Google"), lockTime |-> Opaque("0")]

=============================================================================
